---- MODULE Spec2Model ----
(***************************************************************************)
(* GPTAnalyzer of src/analyzer/gpt_analyzer.py: a rate-limited, TTL-cached *)
(* wrapper around an external reviewer.  One GPTAnalyzer lives in one      *)
(* process; its coroutines run on one asyncio event loop, so the code      *)
(* between two awaits is one atomic step.  Every operation has exactly one *)
(* await (the external call): an invocation is a "start" step that runs up *)
(* to the await or to an early return, and a "resume" step that runs from  *)
(* the await to the return.  Scores are in hundredths (0.5 is 50), times   *)
(* are in seconds.                                                         *)
(***************************************************************************)
EXTENDS Integers, Sequences, FiniteSets, TLC

\* ---------------------------------------------------------------- bounds
Tick == 1800             \* the clock advances in steps of Tick seconds
MaxTicks == 2            \* the clock stops after MaxTicks steps
MaxBudget == 2           \* MAX_GPT_CALLS ranges over 0..MaxBudget
MaxExternal == 2         \* external calls started over one behaviour
MaxRestarts == 1         \* process restarts over one behaviour
MaxInFlight == 2         \* coroutines that can be suspended together

\* ------------------------------------------------------ program constants
WindowDuration == 3600   \* call_reset_time = time.time() + 3600
GPT_CACHE_TTL == 3600    \* GPT_CACHE_TTL as the test environment sets it
Neutral == 50            \* the 0.5 of every fallback score and default

Slots == 1..MaxInFlight
Seeds == {0, 1}          \* per-process string-hash seeds (PYTHONHASHSEED)

Ops == {"analyze", "verify", "originality", "market"}

\* Input texts: strings over {a, b}.  "a" + "b" and "ab" + "" are the same
\* concatenation.
Codes == {<<"a">>, <<"a", "b">>}
Contexts == {<<>>, <<"b">>}

\* The (code, context) pairs analyze_code_segment is called with, the code
\* the two single-argument operations are called with, and the
\* (project_name, repo_url) pairs analyze_market_context is called with.
AnalyzeInputs == { <<c, x>> \in Codes \X Contexts : Len(c) + Len(x) <= 2 }
SiblingCodes == {<<"a">>}
MarketInputs == { <<c, x>> \in Codes \X Contexts : Len(c) + Len(x) <= 1 }

\* ------------------------------------------------------------ cache keys
RECURSIVE StrCode(_)
\* A string as a number (its characters as base-3 digits): what the string
\* hash depends on besides the seed.
StrCode(s) ==
    IF s = <<>> THEN 0
    ELSE 3 * StrCode(SubSeq(s, 1, Len(s) - 1))
         + (IF s[Len(s)] = "a" THEN 1 ELSE 2)

\* Python's hash() of a str: a function of the process's seed and of the
\* characters, nothing else.
PyHash(seed, s) == seed * 100 + StrCode(s)

\* The text each operation hashes for its key.
KeyText(op, code, context) ==
    IF op \in {"analyze", "market"} THEN code \o context ELSE code

\* cache_key = f"<prefix>_{hash(...)}", the file name under cache_dir.
CacheKey(seed, op, code, context) ==
    <<op, PyHash(seed, KeyText(op, code, context))>>

Keys == {CacheKey(sd, op, c, x) : sd \in Seeds, op \in Ops,
                                  c \in Codes, x \in Contexts}

\* The file names under cache_dir/market: MarketAnalyzer builds its key as
\* analyze_market_context does, from hash(project_name + repo_url).
MarketKeys == {CacheKey(sd, "market", i[1], i[2]) :
                   sd \in Seeds, i \in MarketInputs}

\* ------------------------------------------------------------- records
\* findings entries are <<prefix, message>> pairs for f"{prefix}: {message}".
get_fallback_analysis(error_msg) ==
    [ai_score |-> Neutral, quality_score |-> Neutral,
     originality_score |-> Neutral, execution_score |-> Neutral,
     market_value |-> Neutral,
     findings |-> IF error_msg # ""
                  THEN << <<"GPT analysis failed", error_msg>> >>
                  ELSE << <<"No findings available", "">> >>,
     recommendations |-> <<"Enable GPT analysis for enhanced results">>]

VerifyRateLimited ==
    [is_real_ai |-> FALSE, implementation_type |-> "unknown", confidence |-> 0,
     evidence |-> << <<"Rate limit reached", "">> >>,
     suggestions |-> <<"Try again later">>]

VerifyFailed(msg) ==
    [is_real_ai |-> FALSE, implementation_type |-> "unknown", confidence |-> 0,
     evidence |-> << <<"Analysis failed", msg>> >>,
     suggestions |-> <<"Enable GPT analysis for AI verification">>]

OriginalityRateLimited ==
    [originality_score |-> Neutral, is_likely_copied |-> FALSE,
     common_patterns |-> << <<"Rate limit reached", "">> >>,
     unique_elements |-> <<>>,
     recommendations |-> <<"Try again later">>]

OriginalityFailed(msg) ==
    [originality_score |-> Neutral, is_likely_copied |-> FALSE,
     common_patterns |-> <<>>, unique_elements |-> <<>>,
     recommendations |-> <<"Enable GPT analysis for originality verification">>]

MarketFailed(msg) ==
    [popularity_score |-> Neutral, adoption_score |-> Neutral,
     impact_score |-> Neutral,
     market_context |-> <<"Analysis failed", msg>>,
     recommendations |-> <<"Enable GPT analysis for market research">>]

NoRecord == [absent |-> TRUE]

\* -------------------------------------------- the external reviewer's reply
\* A reply's text is a sequence of tokens: "ws" whitespace, "txt" prose,
\* "{" and "}", "kv" well-formed members, "bad" ill-formed members.
Contents ==
    { <<"{", "kv", "}">>,
      <<"ws", "{", "kv", "}", "ws">>,
      <<"txt", "{", "kv", "}", "txt">>,
      <<"txt", "{", "bad", "}">>,
      <<"{", "bad", "}">>,
      <<"{", "kv", "}", "txt">>,
      <<"txt", "}", "{">>,
      <<"txt">>,
      <<>> }

ScoreKeys == {"ai_score", "quality_score", "originality_score",
              "execution_score", "market_value"}

\* The members of the object a "kv" stands for: scores maps the keys whose
\* value is a number, nonnumeric holds the keys whose value is not one,
\* lists maps the list-valued keys present.
FullPayload ==
    [scores |-> [ai_score |-> 80, quality_score |-> 70,
                 originality_score |-> 90, execution_score |-> 60,
                 market_value |-> 85],
     nonnumeric |-> {},
     lists |-> [findings |-> << <<"Good AI implementation", "">> >>,
                recommendations |-> <<"Consider optimizing further">>]]

\* Only ai_score present, and outside 0..1.
SparsePayload ==
    [scores |-> [ai_score |-> 150], nonnumeric |-> {}, lists |-> <<>>]

\* quality_score present with a value float() rejects.
NonNumericPayload ==
    [scores |-> [ai_score |-> 80], nonnumeric |-> {"quality_score"},
     lists |-> <<>>]

AnalyzePayloads == {FullPayload, SparsePayload, NonNumericPayload}

\* The replies the external reviewer gives: every text with the full
\* payload, the plain object with every payload.
Replies ==
    { [content |-> c, payload |-> FullPayload] : c \in Contents }
    \cup { [content |-> <<"{", "kv", "}">>, payload |-> p] :
              p \in AnalyzePayloads }

EmptyObject == [scores |-> <<>>, nonnumeric |-> {}, lists |-> <<>>]

VerifyPayload ==
    [is_real_ai |-> TRUE, implementation_type |-> "framework",
     confidence |-> 90, evidence |-> << <<"Trains a model", "">> >>,
     suggestions |-> <<"Document the model">>]

OriginalityPayload ==
    [originality_score |-> 90, is_likely_copied |-> FALSE,
     common_patterns |-> <<>>, unique_elements |-> <<"Custom scheduler">>,
     recommendations |-> <<"Keep it up">>]

MarketPayload ==
    [popularity_score |-> 85, adoption_score |-> 80, impact_score |-> 75,
     market_context |-> <<"Strong community engagement and adoption", "">>,
     recommendations |-> <<"Consider enterprise support options">>]

\* str(e) of an exception raised by the external call.
ExternalErrors == {"", "API Error"}

RECURSIVE LStrip(_)
LStrip(c) == IF c # <<>> /\ Head(c) = "ws" THEN LStrip(Tail(c)) ELSE c

RECURSIVE RStrip(_)
RStrip(c) ==
    IF c # <<>> /\ c[Len(c)] = "ws" THEN RStrip(SubSeq(c, 1, Len(c) - 1))
    ELSE c

\* str.strip()
Strip(c) == RStrip(LStrip(c))

\* str.find / str.rfind, 1-based, 0 for Python's -1.
Find(c, tok) ==
    IF \E i \in 1..Len(c) : c[i] = tok
    THEN CHOOSE i \in 1..Len(c) :
            c[i] = tok /\ \A j \in 1..(i - 1) : c[j] # tok
    ELSE 0

RFind(c, tok) ==
    IF \E i \in 1..Len(c) : c[i] = tok
    THEN CHOOSE i \in 1..Len(c) :
            c[i] = tok /\ \A j \in (i + 1)..Len(c) : c[j] # tok
    ELSE 0

\* json.loads succeeds exactly on one well-formed object, whitespace around
\* it allowed.
JsonValid(c) == Strip(c) \in { <<"{", "kv", "}">>, <<"{", "}">> }

JsonLoads(c, payload, empty) ==
    IF Strip(c) = <<"{", "kv", "}">> THEN payload ELSE empty

\* dict.get(key, default)
Get(d, k, default) == IF k \in DOMAIN d THEN d[k] ELSE default

\* Lines 176-204: the record parsed from a reply, or the fallback.
\* Returns [ok, result].
ParseAnalysis(content, payload) ==
    LET stripped == Strip(content)
        start == Find(stripped, "{")
        end == RFind(stripped, "}")
        direct == stripped # <<>> /\ Head(stripped) = "{"
        found == direct \/ (start >= 1 /\ end > start)
        text == IF direct THEN stripped ELSE SubSeq(stripped, start, end)
        analysis == JsonLoads(text, payload, EmptyObject)
    IN  IF ~found
        THEN [ok |-> FALSE,
              result |-> get_fallback_analysis(
                            "No valid JSON object found in response")]
        ELSE IF ~JsonValid(text)
        THEN [ok |-> FALSE,
              result |-> get_fallback_analysis("JSON parse error")]
        ELSE IF analysis.nonnumeric # {}
        THEN [ok |-> FALSE,
              result |-> get_fallback_analysis(
                            "could not convert string to float")]
        ELSE [ok |-> TRUE,
              result |->
                [ai_score |-> Get(analysis.scores, "ai_score", Neutral),
                 quality_score |->
                    Get(analysis.scores, "quality_score", Neutral),
                 originality_score |->
                    Get(analysis.scores, "originality_score", Neutral),
                 execution_score |->
                    Get(analysis.scores, "execution_score", Neutral),
                 market_value |->
                    Get(analysis.scores, "market_value", Neutral),
                 findings |->
                    Get(analysis.lists, "findings",
                        << <<"No findings available", "">> >>),
                 recommendations |->
                    Get(analysis.lists, "recommendations",
                        <<"No recommendations available">>)]]

SiblingPayload(op) ==
    IF op = "verify" THEN VerifyPayload
    ELSE IF op = "originality" THEN OriginalityPayload
    ELSE MarketPayload

SiblingFailed(op, msg) ==
    IF op = "verify" THEN VerifyFailed(msg)
    ELSE IF op = "originality" THEN OriginalityFailed(msg)
    ELSE MarketFailed(msg)

\* result = json.loads(response.choices[0].message.content) of the three
\* sibling operations, inside their try.
ParseSibling(op, content) ==
    IF ~JsonValid(content)
    THEN [ok |-> FALSE, result |-> SiblingFailed(op, "JSON parse error")]
    ELSE IF Strip(content) = <<"{", "}">>
    THEN [ok |-> TRUE, result |-> [empty |-> TRUE]]
    ELSE [ok |-> TRUE, result |-> SiblingPayload(op)]

\* ------------------------------------------------------------------ state
VARIABLES
    now,              \* time.time(), seconds
    hash_seed,        \* the running process's string-hash seed
    max_calls,        \* self.max_calls
    cache_dir,        \* self.cache_dir is set (GPT_ANALYSIS_CACHE_PATH given)
    calls_made,       \* self.calls_made
    call_reset_time,  \* self.call_reset_time
    cache,            \* the files under cache_dir, by cache key
    inflight,         \* per slot: the invocation awaiting its external call
    last,             \* the latest step of an invocation and what it returned
    ext_calls,        \* external calls started since the last window reset
    ext_total,        \* external calls started so far
    restarts,         \* process restarts so far
    analysis_result,  \* the AnalysisResult, field by field
    origin,           \* where its market_value_score came from
    returned,         \* what calculate_overall_score returned last
    report,           \* the Report generate_summary produced last
    api_key,          \* OPENAI_API_KEY in the environment
    client,           \* how far the construction of the GPTAnalyzer got
    attrs,            \* the attributes set on the GPTAnalyzer object
    admitted,         \* history: the admissions of the rate limiter
    market_cache,     \* the files under cache_dir/market, by cache key
    market_pending,   \* the slot analyze_market_value awaits, or 0
    market_returned   \* what analyze_market_value returned last

\* The analyzer's variables and the scoring variables.
gpt_vars == <<now, hash_seed, max_calls, cache_dir, calls_made,
              call_reset_time, cache, inflight, last, ext_calls, ext_total,
              restarts>>
score_vars == <<analysis_result, origin, returned, report>>
life_vars == <<api_key, client, attrs>>
market_vars == <<market_cache, market_pending, market_returned>>
\* All but the analyzer's variables, and all but the scoring variables.
other_vars == <<score_vars, life_vars, admitted, market_vars>>
unscored_vars == <<gpt_vars, life_vars, admitted, market_vars>>

vars == <<now, hash_seed, max_calls, cache_dir, calls_made, call_reset_time,
          cache, inflight, last, ext_calls, ext_total, restarts,
          analysis_result, origin, returned, report,
          api_key, client, attrs, admitted,
          market_cache, market_pending, market_returned>>

cache_ttl == GPT_CACHE_TTL

NoEntry == [state |-> "absent", written_at |-> 0, body |-> NoRecord]
Idle == [op |-> "idle", code |-> <<>>, context |-> <<>>, key |-> <<"idle", 0>>]
NoCall == [op |-> "none", code |-> <<>>, context |-> <<>>,
           outcome |-> "none", result |-> NoRecord]

Event(op, code, context, outcome, result) ==
    [op |-> op, code |-> code, context |-> context,
     outcome |-> outcome, result |-> result]

\* OPENAI_API_KEY: not set, set to the empty string, set to a key.
Credentials == {"none", "", "test-key"}

\* What __init__ sets on self, lines 35-112.
AllAttrs == {"max_calls", "calls_made", "call_reset_time", "is_test",
             "cache_dir", "cache_ttl", "client"}

\* The history of admissions: the time of each, and how many there were
\* since the counter was last reset.
NoAdmissions == [at |-> <<>>, in_window |-> 0]

\* No AnalysisResult constructed, nothing returned, no Report yet.
NoResult == [absent |-> TRUE]
NoScore == -1
NoReport == [absent |-> TRUE]

\* GPTAnalyzer.__init__ in a fresh process, the cache directory empty.
Init ==
    /\ now = 0
    /\ hash_seed = 0
    /\ max_calls \in 0..MaxBudget
    /\ cache_dir \in BOOLEAN
    /\ calls_made = 0
    /\ call_reset_time = now + WindowDuration
    /\ cache = [k \in Keys |-> NoEntry]
    /\ inflight = [s \in Slots |-> Idle]
    /\ last = NoCall
    /\ ext_calls = 0
    /\ ext_total = 0
    /\ restarts = 0
    /\ analysis_result = NoResult
    /\ origin = "none"
    /\ returned = NoScore
    /\ report = NoReport
    /\ api_key = "test-key"
    /\ client = "constructed"
    /\ attrs = AllAttrs
    /\ admitted = NoAdmissions
    /\ market_cache = [k \in MarketKeys |-> NoEntry]
    /\ market_pending = 0
    /\ market_returned = NoRecord

\* The lookup with an entry of age cache_ttl still taken as fresh.
CacheLookup_Inclusive(key) ==
    LET e == cache[key]
    IN  IF ~cache_dir THEN "miss"
        ELSE IF e.state = "absent" THEN "miss"
        ELSE IF ~(now - e.written_at <= cache_ttl) THEN "miss"
        ELSE IF e.state = "unreadable" THEN "raise"
        ELSE IF e.state = "malformed" THEN "miss"
        ELSE "hit"

\* The cache lookup every operation performs: "hit", "miss", or "raise" when
\* open()/json.load() fails with anything but json.JSONDecodeError.
CacheLookup(key) ==
    LET e == cache[key]
    IN  IF ~cache_dir THEN "miss"
        ELSE IF e.state = "absent" THEN "miss"
        ELSE IF ~(now - e.written_at < cache_ttl) THEN "miss"
        ELSE IF e.state = "unreadable" THEN "raise"
        ELSE IF e.state = "malformed" THEN "miss"
        ELSE "hit"

\* The reset check with > for >=.
ResetDue_Late == now > call_reset_time

\* "Check rate limit reset": the window after the reset check at time now.
ResetDue == now >= call_reset_time

\* The reset check that forgets to zero the counter.
CallsAfterReset_NoReset == calls_made

\* The reset check that also clears a counter that reached the limit.
CallsAfterReset_Wrap ==
    IF ResetDue \/ calls_made >= max_calls THEN 0 ELSE calls_made

CallsAfterReset == IF ResetDue THEN 0 ELSE calls_made
ResetTimeAfterReset == IF ResetDue THEN now + WindowDuration ELSE call_reset_time
ExtCallsAfterReset == IF ResetDue THEN 0 ELSE ext_calls

\* The admission check that compares the count before the increment.
AdmitsNext_OffByOne(count) == count <= max_calls

\* analyze_code_segment admits iff next_count <= max_calls.
AdmitsNext(count) == count + 1 <= max_calls

\* verify_ai_implementation and check_code_originality reject iff
\* calls_made >= max_calls.
HasRoom(count) == ~(count >= max_calls)

\* The first free slot: at most MaxInFlight coroutines are suspended.
FirstFree(s) ==
    /\ inflight[s] = Idle
    /\ \A t \in Slots : t < s => inflight[t] # Idle

\* The invocation reaches its await: the external call is started and the
\* coroutine is suspended.
Await(op, code, context, key) ==
    /\ ext_total < MaxExternal
    /\ ext_total' = ext_total + 1
    /\ \E s \in Slots :
          /\ FirstFree(s)
          /\ inflight' = [inflight EXCEPT ![s] =
                            [op |-> op, code |-> code, context |-> context,
                             key |-> key]]

\* The invocation returns without reaching its await.
NoAwait == UNCHANGED <<inflight, ext_total>>

\* The skeleton verify_ai_implementation and check_code_originality share:
\* reset check, rate-limit check, increment, and only then the cache lookup.
LimitThenLookup(op, code, context, limited) ==
    LET key == CacheKey(hash_seed, op, code, context)
        look == CacheLookup(key)
    IN  /\ UNCHANGED <<now, hash_seed, max_calls, cache_dir, cache, restarts>>
        /\ call_reset_time' = ResetTimeAfterReset
        /\ IF ~HasRoom(CallsAfterReset)
           THEN /\ calls_made' = CallsAfterReset
                /\ ext_calls' = ExtCallsAfterReset
                /\ NoAwait
                /\ last' = Event(op, code, context, "rate_limited", limited)
           ELSE /\ calls_made' = CallsAfterReset + 1
                /\ IF look = "hit"
                   THEN /\ last' = Event(op, code, context, "cache_hit",
                                         cache[key].body)
                        /\ ext_calls' = ExtCallsAfterReset
                        /\ NoAwait
                   ELSE IF look = "raise"
                   THEN /\ last' = Event(op, code, context, "raised", NoRecord)
                        /\ ext_calls' = ExtCallsAfterReset
                        /\ NoAwait
                   ELSE /\ ext_calls' = ExtCallsAfterReset + 1
                        /\ Await(op, code, context, key)
                        /\ last' = Event(op, code, context, "admitted", NoRecord)

\* analyze_code_segment with the rate-limit check ahead of the cache lookup.
analyze_code_segment_LimitFirst(code, context) ==
    LimitThenLookup("analyze", code, context,
                    get_fallback_analysis("Rate limit reached"))

\* analyze_code_segment passing its check without counting the call before
\* it is suspended.
analyze_code_segment_LateIncrement(code, context) ==
    LET key == CacheKey(hash_seed, "analyze", code, context)
    IN  /\ UNCHANGED <<now, hash_seed, max_calls, cache_dir, cache, restarts>>
        /\ call_reset_time' = ResetTimeAfterReset
        /\ calls_made' = CallsAfterReset
        /\ IF AdmitsNext(CallsAfterReset)
           THEN /\ ext_calls' = ExtCallsAfterReset + 1
                /\ Await("analyze", code, context, key)
                /\ last' = Event("analyze", code, context, "admitted",
                                 NoRecord)
           ELSE /\ ext_calls' = ExtCallsAfterReset
                /\ NoAwait
                /\ last' = Event("analyze", code, context, "rate_limited",
                                 get_fallback_analysis("Rate limit reached"))

\* analyze_code_segment, lines 114-153: up to the await or an early return.
analyze_code_segment(code, context) ==
    LET key == CacheKey(hash_seed, "analyze", code, context)
        look == CacheLookup(key)
    IN  /\ UNCHANGED <<now, hash_seed, max_calls, cache_dir, cache, restarts>>
        /\ IF look = "hit"
           THEN /\ last' = Event("analyze", code, context, "cache_hit",
                                 cache[key].body)
                /\ UNCHANGED <<calls_made, call_reset_time, ext_calls>>
                /\ NoAwait
           ELSE IF look = "raise"
           THEN /\ last' = Event("analyze", code, context, "raised", NoRecord)
                /\ UNCHANGED <<calls_made, call_reset_time, ext_calls>>
                /\ NoAwait
           ELSE /\ call_reset_time' = ResetTimeAfterReset
                /\ IF AdmitsNext(CallsAfterReset)
                   THEN /\ calls_made' = CallsAfterReset + 1
                        /\ ext_calls' = ExtCallsAfterReset + 1
                        /\ Await("analyze", code, context, key)
                        /\ last' = Event("analyze", code, context, "admitted",
                                         NoRecord)
                   ELSE /\ calls_made' = CallsAfterReset
                        /\ ext_calls' = ExtCallsAfterReset
                        /\ NoAwait
                        /\ last' = Event("analyze", code, context,
                                         "rate_limited",
                                         get_fallback_analysis(
                                            "Rate limit reached"))

\* verify_ai_implementation, lines 234-274.
verify_ai_implementation(code) ==
    LimitThenLookup("verify", code, <<>>, VerifyRateLimited)

\* check_code_originality, lines 382-422.
check_code_originality(code) ==
    LimitThenLookup("originality", code, <<>>, OriginalityRateLimited)

\* analyze_market_context, lines 317-335: cache lookup, then the external
\* call; the rate window is neither read nor written.
analyze_market_context(project_name, repo_url) ==
    LET key == CacheKey(hash_seed, "market", project_name, repo_url)
        look == CacheLookup(key)
    IN  /\ UNCHANGED <<now, hash_seed, max_calls, cache_dir, cache, restarts,
                       calls_made, call_reset_time>>
        /\ IF look = "hit"
           THEN /\ last' = Event("market", project_name, repo_url, "cache_hit",
                                 cache[key].body)
                /\ UNCHANGED ext_calls
                /\ NoAwait
           ELSE IF look = "raise"
           THEN /\ last' = Event("market", project_name, repo_url, "raised",
                                 NoRecord)
                /\ UNCHANGED ext_calls
                /\ NoAwait
           ELSE /\ ext_calls' = ext_calls + 1
                /\ Await("market", project_name, repo_url, key)
                /\ last' = Event("market", project_name, repo_url, "admitted",
                                 NoRecord)

\* How the write of a cache file ends: written; open() failed and the file
\* is as before; json.dump failed part-way and left a truncated file.
WriteOutcomes == {"written", "open_fails", "dump_fails"}

\* "Cache the result if caching is enabled": failures are logged, not raised.
CacheWrite(key, result, wr) ==
    IF ~cache_dir \/ wr = "open_fails" THEN UNCHANGED cache
    ELSE IF wr = "written"
    THEN cache' = [cache EXCEPT ![key] =
                     [state |-> "ok", written_at |-> now, body |-> result]]
    ELSE cache' = [cache EXCEPT ![key] =
                     [state |-> "malformed", written_at |-> now,
                      body |-> NoRecord]]

Awaiting(s) == inflight[s] # Idle

\* A return that gives the slot back when the call did not succeed.
Return_Refund(s, outcome, result) ==
    /\ inflight' = [inflight EXCEPT ![s] = Idle]
    /\ last' = Event(inflight[s].op, inflight[s].code, inflight[s].context,
                     outcome, result)
    /\ calls_made' = IF outcome = "real" THEN calls_made ELSE calls_made - 1
    /\ UNCHANGED <<now, hash_seed, max_calls, cache_dir,
                   call_reset_time, ext_calls, ext_total, restarts>>

\* The resumed coroutine ends: its caller gets the result (or, for
\* "aborted", the CancelledError).
Return(s, outcome, result) ==
    /\ inflight' = [inflight EXCEPT ![s] = Idle]
    /\ last' = Event(inflight[s].op, inflight[s].code, inflight[s].context,
                     outcome, result)
    /\ UNCHANGED <<now, hash_seed, max_calls, cache_dir, calls_made,
                   call_reset_time, ext_calls, ext_total, restarts>>

\* The external call raised: every operation returns its error fallback.
external_call_fails(s, msg) ==
    /\ Awaiting(s)
    /\ UNCHANGED cache
    /\ Return(s, "error_fallback",
              IF inflight[s].op = "analyze" THEN get_fallback_analysis(msg)
              ELSE SiblingFailed(inflight[s].op, msg))

\* The external call returned a reply: parse, cache, return (lines 175-214,
\* 295-305, 358-368, 443-453).
external_call_returns(s, reply) ==
    LET parsed == IF inflight[s].op = "analyze"
                  THEN ParseAnalysis(reply.content, reply.payload)
                  ELSE ParseSibling(inflight[s].op, reply.content)
    IN  /\ Awaiting(s)
        /\ IF parsed.ok
           THEN /\ \E wr \in IF cache_dir THEN WriteOutcomes ELSE {"none"} :
                      CacheWrite(inflight[s].key, parsed.result, wr)
                /\ Return(s, "real", parsed.result)
           ELSE /\ UNCHANGED cache
                /\ Return(s, "error_fallback", parsed.result)

\* The awaiting coroutine is cancelled: CancelledError is not an Exception,
\* no handler runs, nothing is returned.
cancel(s) ==
    /\ Awaiting(s)
    /\ UNCHANGED cache
    /\ Return(s, "aborted", NoRecord)

\* The file system outside the program: a stored entry loses its read
\* permission or its bytes stop being text, so that reading it raises
\* OSError or UnicodeDecodeError.
damage_entry(k) ==
    /\ cache_dir
    /\ cache[k].state = "ok"
    /\ cache' = [cache EXCEPT ![k].state = "unreadable", ![k].body = NoRecord]
    /\ UNCHANGED <<now, hash_seed, max_calls, cache_dir, calls_made,
                   call_reset_time, inflight, last, ext_calls, ext_total,
                   restarts>>

\* The process ends and a new one constructs its GPTAnalyzer in the same
\* environment: new hash seed, new rate window, the cache files stay.
restart ==
    /\ restarts < MaxRestarts
    /\ restarts' = restarts + 1
    /\ hash_seed' \in Seeds
    /\ calls_made' = 0
    /\ call_reset_time' = now + WindowDuration
    /\ inflight' = [s \in Slots |-> Idle]
    /\ last' = NoCall
    /\ ext_calls' = 0
    /\ UNCHANGED <<now, max_calls, cache_dir, cache, ext_total>>

\* time.time() moves on.
Advance ==
    /\ now < MaxTicks * Tick
    /\ now' = now + Tick
    /\ UNCHANGED <<hash_seed, max_calls, cache_dir, calls_made,
                   call_reset_time, cache, inflight, last, ext_calls,
                   ext_total, restarts>>

\* A step of the analyzer: it touches nothing but the analyzer.
Next ==
    \/ /\ \E i \in AnalyzeInputs : analyze_code_segment(i[1], i[2])
       /\ UNCHANGED other_vars
    \/ /\ \E c \in SiblingCodes : verify_ai_implementation(c)
       /\ UNCHANGED other_vars
    \/ /\ \E c \in SiblingCodes : check_code_originality(c)
       /\ UNCHANGED other_vars
    \/ /\ \E i \in MarketInputs : analyze_market_context(i[1], i[2])
       /\ UNCHANGED other_vars
    \/ /\ \E s \in Slots, m \in ExternalErrors : external_call_fails(s, m)
       /\ UNCHANGED other_vars
    \/ /\ \E s \in Slots, r \in Replies : external_call_returns(s, r)
       /\ UNCHANGED other_vars
    \/ /\ \E s \in Slots : cancel(s)
       /\ UNCHANGED other_vars
    \/ /\ \E k \in Keys : damage_entry(k)
       /\ UNCHANGED other_vars
    \/ /\ Advance
       /\ UNCHANGED other_vars

Spec == Init /\ [][Next]_vars

\* The same program over several process lifetimes.
NextRestart == Next \/ (restart /\ UNCHANGED other_vars)

SpecRestart == Init /\ [][NextRestart]_vars

\* ---------------------------------------------------------- construction
\* The test that takes the empty string for a key.
HasCredential_NotNone(key) == key # "none"

\* "if not api_key" is false: os.getenv gave a non-empty string.
HasCredential(key) == key # "none" /\ key # ""

\* GPTAnalyzer.__init__, lines 28-112, with MAX_GPT_CALLS giving max and
\* GPT_ANALYSIS_CACHE_PATH being set or not.
GPTAnalyzer_init(max, dir) ==
    /\ client = "unconstructed"
    /\ UNCHANGED <<now, hash_seed, cache, inflight, last, ext_calls,
                   ext_total, restarts, api_key>>
    /\ IF ~HasCredential(api_key)
       THEN /\ client' = "ValueError"
            /\ UNCHANGED <<attrs, max_calls, cache_dir, calls_made,
                           call_reset_time>>
       ELSE /\ client' = "constructed"
            /\ attrs' = AllAttrs
            /\ max_calls' = max
            /\ calls_made' = 0
            /\ call_reset_time' = now + WindowDuration
            /\ cache_dir' = dir

\* The process before GPTAnalyzer() is called: no object, no attribute.
InitConstruct ==
    /\ now = 0
    /\ hash_seed = 0
    /\ max_calls = 0
    /\ cache_dir = FALSE
    /\ calls_made = 0
    /\ call_reset_time = 0
    /\ cache = [k \in Keys |-> NoEntry]
    /\ inflight = [s \in Slots |-> Idle]
    /\ last = NoCall
    /\ ext_calls = 0
    /\ ext_total = 0
    /\ restarts = 0
    /\ analysis_result = NoResult
    /\ origin = "none"
    /\ returned = NoScore
    /\ report = NoReport
    /\ api_key \in Credentials
    /\ client = "unconstructed"
    /\ attrs = {}
    /\ admitted = NoAdmissions
    /\ market_cache = [k \in MarketKeys |-> NoEntry]
    /\ market_pending = 0
    /\ market_returned = NoRecord

constructed_vars == <<score_vars, admitted, market_vars>>

\* The analyzer from before its construction on: its operations need the
\* object, which a failed construction does not give (CodeAnalyzer.__init__
\* catches the ValueError and goes on with gpt_analyzer = None).
NextConstruct ==
    \/ /\ \E max \in 0..MaxBudget, dir \in BOOLEAN : GPTAnalyzer_init(max, dir)
       /\ UNCHANGED constructed_vars
    \/ /\ client = "constructed"
       /\ \E i \in AnalyzeInputs : analyze_code_segment(i[1], i[2])
       /\ UNCHANGED other_vars
    \/ /\ client = "constructed"
       /\ \E c \in SiblingCodes : verify_ai_implementation(c)
       /\ UNCHANGED other_vars
    \/ /\ client = "constructed"
       /\ \E c \in SiblingCodes : check_code_originality(c)
       /\ UNCHANGED other_vars
    \/ /\ client = "constructed"
       /\ \E i \in MarketInputs : analyze_market_context(i[1], i[2])
       /\ UNCHANGED other_vars
    \/ /\ \E s \in Slots, m \in ExternalErrors : external_call_fails(s, m)
       /\ UNCHANGED other_vars
    \/ /\ \E s \in Slots, r \in Replies : external_call_returns(s, r)
       /\ UNCHANGED other_vars
    \/ /\ \E s \in Slots : cancel(s)
       /\ UNCHANGED other_vars
    \/ /\ Advance
       /\ UNCHANGED other_vars

SpecConstruct == InitConstruct /\ [][NextConstruct]_vars

\* ------------------------------------------- the rate-limited operations
\* The step passed the admission check: analyze_code_segment is admitted
\* when it reaches its await, the other two as soon as they go on to their
\* cache lookup.
PassedCheck ==
    \/ last'.op = "analyze" /\ last'.outcome = "admitted"
    \/ /\ last'.op \in {"verify", "originality"}
       /\ last'.outcome \in {"admitted", "cache_hit", "raised"}

\* The history after an invocation of a rate-limited operation.
TrackAdmission ==
    LET since == IF call_reset_time' # call_reset_time
                 THEN 0 ELSE admitted.in_window
    IN  admitted' =
            IF PassedCheck
            THEN [at |-> Append(admitted.at, now), in_window |-> since + 1]
            ELSE [at |-> admitted.at, in_window |-> since]

limited_vars == <<score_vars, life_vars, market_vars>>

\* One GPTAnalyzer serving analyze_code_segment, verify_ai_implementation
\* and check_code_originality, up to MaxInFlight of them suspended at a
\* time, with the history of admissions kept.
NextLimited ==
    \/ /\ \E i \in AnalyzeInputs : analyze_code_segment(i[1], i[2])
       /\ TrackAdmission
       /\ UNCHANGED limited_vars
    \/ /\ \E c \in SiblingCodes : verify_ai_implementation(c)
       /\ TrackAdmission
       /\ UNCHANGED limited_vars
    \/ /\ \E c \in SiblingCodes : check_code_originality(c)
       /\ TrackAdmission
       /\ UNCHANGED limited_vars
    \/ /\ \E s \in Slots, m \in ExternalErrors : external_call_fails(s, m)
       /\ UNCHANGED other_vars
    \/ /\ \E s \in Slots, r \in Replies : external_call_returns(s, r)
       /\ UNCHANGED other_vars
    \/ /\ \E s \in Slots : cancel(s)
       /\ UNCHANGED other_vars
    \/ /\ Advance
       /\ UNCHANGED other_vars

SpecLimited == Init /\ [][NextLimited]_vars

\* ================================================ scoring and the report
\* AnalysisResult and CodeAnalyzer of src/analyzer/code_analyzer.py,
\* MarketAnalyzer of src/analyzer/market_analyzer.py and ReportGenerator of
\* src/analyzer/report_generator.py.  Sub-scores are in hundredths; weights
\* are in tenths; an overall score is in 1/12000ths, so that a weight times
\* the mean of one to four sub-scores is a whole number (0.5 is 6000).  On
\* the sub-scores below the float arithmetic of the code and this exact
\* arithmetic agree on every comparison the properties make.
BaseWeight == 7          \* normalized_base * 0.7
MarketWeight == 3        \* market_value_score * 0.3
HighMarket == 80         \* market_value_score >= 0.8
MinTotal == 50           \* min_base = 0.5 - market_contribution
DefaultScore == 0        \* market_value_score: float = 0.0
NeutralMarket == 50      \* market_score = 0.5  # Default neutral score
MarketFallbackScore == 50   \* 'market_score': 0.5 of the market fallback

BaseScores == {0, 10, 50, 100}
MarketScores == {0, 50, 79, 80, 100}
\* Recommendation lists a caller passes; none holds the adjustment note.
RecommendationLists == {<<>>, <<"Add tests", "Pin dependencies">>}

Note ==
    "NOTE: Project score was adjusted to minimum 5.0/10 due to high market success"

Labels == {"AI Framework Integration", "Code Quality",
           "Execution Performance", "Market Success", "Code Originality"}

Max(a, b) == IF a >= b THEN a ELSE b
Min(a, b) == IF a <= b THEN a ELSE b

RECURSIVE Sum(_)
Sum(seq) == IF seq = <<>> THEN 0 ELSE Head(seq) + Sum(Tail(seq))

\* A sub-score (hundredths) as an overall score (1/12000ths).
Whole(x) == 120 * x
\* weight * score.
Weighted(w, x) == 12 * w * x
\* The mean taken without dividing by the number of scores.
WeightedMean_Sum(w, scores) == 12 * w * Sum(scores)
\* weight * (sum(scores) / len(scores)), scores not empty.
WeightedMean(w, scores) == (12 * w * Sum(scores)) \div Len(scores)

\* AnalysisResult.__init__: a score not supplied takes the parameter's
\* default.  supplied tells whether market_value_score was passed.
AnalysisResult(cq, ai, ex, sec, supplied, market_value, issues, recs) ==
    [code_quality_score |-> cq,
     ai_framework_score |-> ai,
     execution_score |-> ex,
     security_score |-> sec,
     market_value_score |-> IF supplied THEN market_value ELSE DefaultScore,
     issues |-> issues,
     recommendations |-> recs]

\* The filter that keeps a base score of 0.
base_scores_KeepZeros(r) ==
    SelectSeq(<<r.ai_framework_score, r.code_quality_score,
                r.execution_score, r.security_score>>,
              LAMBDA score : score >= 0)
\* base_scores = [score for score in [...] if score > 0]
base_scores(r) ==
    SelectSeq(<<r.ai_framework_score, r.code_quality_score,
                r.execution_score, r.security_score>>,
              LAMBDA score : score > 0)

\* The test with the threshold excluded.
HighMarketSuccess_Strict(market_value_score) ==
    market_value_score > HighMarket
\* The test with the threshold of the "moderately popular" tier.
HighMarketSuccess_Moderate(market_value_score) ==
    market_value_score >= 60
\* if self.market_value_score >= 0.8
HighMarketSuccess(market_value_score) ==
    market_value_score >= HighMarket

\* AnalysisResult.calculate_overall_score, lines 49-84.  No operation of the
\* try block raises on float fields, so the except branch is never taken.
calculate_overall_score(r) ==
    LET scores == base_scores(r)
        market_contribution == Weighted(MarketWeight, r.market_value_score)
        min_base == Whole(MinTotal) - market_contribution
        base_score ==
            IF scores # <<>>
            THEN IF HighMarketSuccess(r.market_value_score)
                 THEN Max(WeightedMean(BaseWeight, scores), min_base)
                 ELSE WeightedMean(BaseWeight, scores)
            ELSE 0
    IN  base_score + market_contribution

\* ReportGenerator._calculate_overall_score, lines 77-99: equal weights over
\* the four base scores, no market contribution.
legacy_calculate_overall_score(r) ==
    LET base_score == 30 * r.ai_framework_score + 30 * r.code_quality_score
                      + 30 * r.execution_score + 30 * r.security_score
    IN  IF r.market_value_score >= HighMarket
        THEN Max(base_score, Whole(MinTotal))
        ELSE base_score

\* generate_summary scoring with its own _calculate_overall_score.
SummaryScore_Legacy(r) ==
    [overall_score |-> legacy_calculate_overall_score(r),
     score_override |-> base_scores(r) # <<>>
                        /\ HighMarketSuccess(r.market_value_score)]
\* generate_summary, lines 20-53: overall_score and score_override.
SummaryScore(r) ==
    LET scores == base_scores(r)
        market_contribution == Weighted(MarketWeight, r.market_value_score)
        min_base == Whole(MinTotal) - market_contribution
        floored == scores # <<>> /\ HighMarketSuccess(r.market_value_score)
        base_score ==
            IF scores # <<>>
            THEN IF floored
                 THEN Max(WeightedMean(BaseWeight, scores), min_base)
                 ELSE WeightedMean(BaseWeight, scores)
            ELSE 0
    IN  [overall_score |-> base_score + market_contribution,
         score_override |-> floored]

\* The note put after the recommendations.
WithNote_Appended(recommendations, score_override) ==
    IF score_override THEN Append(recommendations, Note) ELSE recommendations
\* recommendations = list(...); if score_override: insert(0, NOTE)
WithNote(recommendations, score_override) ==
    IF score_override THEN <<Note>> \o recommendations ELSE recommendations

\* generate_summary, lines 55-75: the Report.
generate_summary(r) ==
    LET s == SummaryScore(r)
    IN  [overall_score |-> s.overall_score,
         detailed_scores |->
             [l \in Labels |->
                 CASE l = "AI Framework Integration" -> r.ai_framework_score
                   [] l = "Code Quality" -> r.code_quality_score
                   [] l = "Execution Performance" -> r.execution_score
                   [] l = "Market Success" -> r.market_value_score
                   [] l = "Code Originality" -> r.security_score],
         issues |-> r.issues,
         recommendations |-> WithNote(r.recommendations, s.score_override)]

\* ------------------------------------------------------- market analysis
\* What analyze_market_context hands to MarketAnalyzer: the reviewer's
\* record, an empty object, or the record of a failed external call.
MarketData ==
    {MarketPayload, [empty |-> TRUE]}
        \cup {MarketFailed(msg) : msg \in ExternalErrors}

\* MarketAnalyzer._calculate_market_score, lines 110-123.
calculate_market_score(market_data) ==
    LET popularity == Get(market_data, "popularity_score", Neutral)
        adoption == Get(market_data, "adoption_score", Neutral)
        impact == Get(market_data, "impact_score", Neutral)
    IN  Min(100, (4 * popularity + 4 * adoption + 2 * impact) \div 10)

\* analyze_market_value, lines 83-92: the result built from market_data.
MarketResult(market_data) ==
    [market_score |-> calculate_market_score(market_data),
     is_popular |-> calculate_market_score(market_data) >= HighMarket,
     market_context |-> Get(market_data, "market_context", <<"", "">>),
     recommendations |-> Get(market_data, "recommendations", <<>>)]

\* MarketAnalyzer._get_fallback_analysis.
market_fallback_analysis ==
    [market_score |-> MarketFallbackScore,
     is_popular |-> FALSE,
     market_context |-> <<"Market analysis unavailable", "">>,
     recommendations |-> <<"Enable market analysis for enhanced results">>]

\* How a call of analyze_market_value ends: it returns the result built from
\* market_data (computed now or read back from its cache), it returns the
\* fallback because something raised inside its try block, or it raises
\* because its cache file cannot be read (the read is outside the try).
MarketOutcomes ==
    {[kind |-> "returns", failed |-> "market_context" \in DOMAIN md
                                      /\ md.market_context[1] = "Analysis failed",
      value |-> MarketResult(md)] : md \in MarketData}
        \cup {[kind |-> "returns", failed |-> TRUE,
               value |-> market_fallback_analysis],
              [kind |-> "raises", failed |-> TRUE, value |-> NoRecord]}

\* MIN_POPULAR_SCORE / 10.0: the default 5.0 gives 0.5; 6.0 stands for any
\* other configuration.
MinPopularScores == {50, 60}
ModerateMarket == 60     \* elif market_score >= 0.6
ModerateMinimum == 40    \* return 0.4

\* return None
NoMinimum == -1

\* MarketAnalyzer.get_minimum_score, lines 144-150.
get_minimum_score(min_popular_score, market_score) ==
    IF market_score >= HighMarket THEN min_popular_score
    ELSE IF market_score >= ModerateMarket THEN ModerateMinimum
    ELSE NoMinimum

\* CodeAnalyzer.analyze, lines 187-203: the market score of the result.
analyze_market_score(configured, outcome) ==
    IF ~configured THEN NeutralMarket
    ELSE IF outcome.kind = "raises" THEN NeutralMarket
    ELSE IF "market_score" \in DOMAIN outcome.value
    THEN outcome.value.market_score
    ELSE NeutralMarket

\* ------------------------------------------------------ MarketAnalyzer
\* A MarketAnalyzer and the GPTAnalyzer it owns (market_analyzer.py:39); both
\* read GPT_ANALYSIS_CACHE_PATH, the MarketAnalyzer caches under its
\* sub-directory market.
MARKET_CACHE_TTL == 3600
market_cache_ttl == MARKET_CACHE_TTL

\* Lines 64-74: a hit is a stored entry younger than cache_ttl that parses.
MarketCacheHit(key) ==
    /\ cache_dir
    /\ market_cache[key].state = "ok"
    /\ now - market_cache[key].written_at < market_cache_ttl

\* Lines 82-102: analyze_market_context returned market_data; the result is
\* built from it, written to the cache when caching is enabled, returned.
MarketContinue(key, market_data) ==
    /\ market_returned' = MarketResult(market_data)
    /\ market_pending' = 0
    /\ \E wr \in IF cache_dir THEN WriteOutcomes ELSE {"none"} :
          IF ~cache_dir \/ wr = "open_fails" THEN UNCHANGED market_cache
          ELSE IF wr = "written"
          THEN market_cache' =
                   [market_cache EXCEPT ![key] =
                       [state |-> "ok", written_at |-> now,
                        body |-> MarketResult(market_data)]]
          ELSE market_cache' =
                   [market_cache EXCEPT ![key] =
                       [state |-> "malformed", written_at |-> now,
                        body |-> NoRecord]]

\* analyze_market_value, lines 56-106, up to the await inside
\* analyze_market_context or to its return.
analyze_market_value(project_name, repo_url) ==
    LET key == CacheKey(hash_seed, "market", project_name, repo_url)
    IN  /\ market_pending = 0
        /\ IF MarketCacheHit(key)
           THEN /\ market_returned' = market_cache[key].body
                /\ UNCHANGED <<gpt_vars, market_cache, market_pending>>
           ELSE /\ analyze_market_context(project_name, repo_url)
                /\ IF last'.outcome = "cache_hit"
                   THEN MarketContinue(key, last'.result)
                   ELSE IF last'.outcome = "raised"
                   THEN /\ market_returned' = market_fallback_analysis
                        /\ UNCHANGED <<market_cache, market_pending>>
                   ELSE /\ market_pending' =
                               CHOOSE s \in Slots : inflight'[s] # inflight[s]
                        /\ market_returned' = NoRecord
                        /\ UNCHANGED market_cache

\* The external call of the suspended analyze_market_context ended; it
\* returns its record (the reviewer's or its failure record) and
\* analyze_market_value goes on with it.
market_call_returns(reply) ==
    /\ market_pending # 0
    /\ external_call_returns(market_pending, reply)
    /\ MarketContinue(inflight[market_pending].key, last'.result)

market_call_fails(msg) ==
    /\ market_pending # 0
    /\ external_call_fails(market_pending, msg)
    /\ MarketContinue(inflight[market_pending].key, last'.result)

\* Cancellation passes through both coroutines: nothing is returned.
market_cancel ==
    /\ market_pending # 0
    /\ cancel(market_pending)
    /\ market_returned' = NoRecord
    /\ market_pending' = 0
    /\ UNCHANGED market_cache

unmarketed_vars == <<score_vars, life_vars, admitted>>

NextMarket ==
    \/ /\ \E i \in MarketInputs : analyze_market_value(i[1], i[2])
       /\ UNCHANGED unmarketed_vars
    \/ /\ \E r \in Replies : market_call_returns(r)
       /\ UNCHANGED unmarketed_vars
    \/ /\ \E m \in ExternalErrors : market_call_fails(m)
       /\ UNCHANGED unmarketed_vars
    \/ /\ market_cancel
       /\ UNCHANGED unmarketed_vars
    \/ /\ Advance
       /\ UNCHANGED other_vars

SpecMarket == Init /\ [][NextMarket]_vars

\* --------------------------------------------------- GPT enhancement
\* The record analyze_code_segment returns for a sampled file the reviewer
\* analysed, and its two fallback records.
AnalyzedRecord == ParseAnalysis(<<"{", "kv", "}">>, FullPayload).result
FallbackRecords == {get_fallback_analysis("Rate limit reached"),
                    get_fallback_analysis("API Error")}

\* The records the loop over the sampled files receives, in order: none (no
\* GPT analyzer, no sampled file, or every call raised), fallbacks only,
\* analysed files only, and both.
GptResults ==
    {<<>>,
     <<get_fallback_analysis("API Error")>>,
     <<get_fallback_analysis("Rate limit reached"),
       get_fallback_analysis("Rate limit reached")>>,
     <<AnalyzedRecord>>,
     <<AnalyzedRecord, AnalyzedRecord, get_fallback_analysis("API Error")>>}

\* gpt_scores: result['ai_score'] of every record that has the key.
gpt_scores(results) ==
    LET kept == SelectSeq(results, LAMBDA rec : "ai_score" \in DOMAIN rec)
    IN  [n \in 1..Len(kept) |-> kept[n].ai_score]

\* CodeAnalyzer.analyze, lines 176-181: ai_score * 0.7 + avg_gpt_score * 0.3
\* when gpt_scores is not empty, the static ai_score otherwise.
enhance_ai_score(ai_score, results) ==
    LET scores == gpt_scores(results)
    IN  IF scores = <<>> THEN ai_score
        ELSE (7 * ai_score * Len(scores) + 3 * Sum(scores))
                 \div (10 * Len(scores))

\* ------------------------------------------------------ scoring actions
\* A caller constructs an AnalysisResult, passing market_value_score or not.
\* A behaviour follows one AnalysisResult from its construction on.
construct(cq, ai, ex, sec, supplied, mv, recs) ==
    /\ analysis_result = NoResult
    /\ analysis_result' =
           AnalysisResult(cq, ai, ex, sec, supplied, mv, <<>>, recs)
    /\ origin' = IF supplied THEN "supplied" ELSE "not_supplied"
    /\ returned' = NoScore
    /\ report' = NoReport
    /\ UNCHANGED unscored_vars

\* CodeAnalyzer.analyze, lines 142-219.  The base sub-scores are what the
\* sub-analyzers produced, ai the static authenticity score and results the
\* records of analyze_code_segment for the sampled files; configured is
\* self.market_analyzer being set; _collect_issues and
\* _generate_recommendations return [].
analyze(cq, ai, ex, sec, results, configured, outcome) ==
    /\ analysis_result = NoResult
    /\ analysis_result' =
           AnalysisResult(cq, enhance_ai_score(ai, results), ex, sec, TRUE,
                          analyze_market_score(configured, outcome),
                          <<>>, <<>>)
    /\ origin' = IF ~configured THEN "not_configured"
                 ELSE IF outcome.failed THEN "failed"
                 ELSE "analyzed"
    /\ returned' = NoScore
    /\ report' = NoReport
    /\ UNCHANGED unscored_vars

\* result.calculate_overall_score()
CalculateOverallScore ==
    /\ analysis_result # NoResult
    /\ returned' = calculate_overall_score(analysis_result)
    /\ UNCHANGED <<analysis_result, origin, report>>
    /\ UNCHANGED unscored_vars

\* generate_summary with the note inserted into the result's own list.
GenerateSummary_InPlace ==
    /\ analysis_result # NoResult
    /\ report' = generate_summary(analysis_result)
    /\ analysis_result' =
           [analysis_result EXCEPT
               !.recommendations =
                   generate_summary(analysis_result).recommendations]
    /\ UNCHANGED <<origin, returned>>
    /\ UNCHANGED unscored_vars
\* ReportGenerator(result).generate_summary(): the note goes into a copy of
\* the recommendations, the result is only read.
GenerateSummary ==
    /\ analysis_result # NoResult
    /\ report' = generate_summary(analysis_result)
    /\ UNCHANGED <<analysis_result, origin, returned>>
    /\ UNCHANGED unscored_vars

\* No analyzer is running: only results are built, scored and reported.
InitScore ==
    /\ now = 0
    /\ hash_seed = 0
    /\ max_calls = 0
    /\ cache_dir = FALSE
    /\ calls_made = 0
    /\ call_reset_time = now + WindowDuration
    /\ cache = [k \in Keys |-> NoEntry]
    /\ inflight = [s \in Slots |-> Idle]
    /\ last = NoCall
    /\ ext_calls = 0
    /\ ext_total = 0
    /\ restarts = 0
    /\ analysis_result = NoResult
    /\ origin = "none"
    /\ returned = NoScore
    /\ report = NoReport
    /\ api_key = "test-key"
    /\ client = "constructed"
    /\ attrs = AllAttrs
    /\ admitted = NoAdmissions
    /\ market_cache = [k \in MarketKeys |-> NoEntry]
    /\ market_pending = 0
    /\ market_returned = NoRecord

NextScore ==
    \/ /\ analysis_result = NoResult
       /\ \E cq \in BaseScores, ai \in BaseScores, ex \in BaseScores,
             sec \in BaseScores, supplied \in BOOLEAN, mv \in MarketScores,
             recs \in RecommendationLists :
              construct(cq, ai, ex, sec, supplied, mv, recs)
    \/ /\ analysis_result = NoResult
       /\ \E cq \in BaseScores, ai \in BaseScores, ex \in BaseScores,
             sec \in BaseScores, results \in GptResults,
             configured \in BOOLEAN, outcome \in MarketOutcomes :
              analyze(cq, ai, ex, sec, results, configured, outcome)
    \/ CalculateOverallScore
    \/ GenerateSummary

SpecScore == InitScore /\ [][NextScore]_vars

\* ================================================================ claims
AnalyzeKey(i) == CacheKey(hash_seed, "analyze", i[1], i[2])
LastKey == CacheKey(hash_seed, last.op, last.code, last.context)

\* A step in which one of the three rate-limited operations gets as far as
\* its admission check.
AnalyzeReachesAdmission ==
    \E i \in AnalyzeInputs :
        /\ analyze_code_segment(i[1], i[2])
        /\ CacheLookup(AnalyzeKey(i)) = "miss"

ReachesAdmission ==
    \/ AnalyzeReachesAdmission
    \/ \E c \in SiblingCodes : verify_ai_implementation(c)
    \/ \E c \in SiblingCodes : check_code_originality(c)

\* C1: 0 <= calls_made <= max_calls in every reachable state, and a
\* rate-limited call that starts at now >= call_reset_time has the window
\* reset (calls_made 0, call_reset_time now + 3600) before its admission
\* check: afterwards call_reset_time is now + 3600 and calls_made is what
\* admission from 0 leaves, 1 if max_calls >= 1 and 0 otherwise.
C1_RateWindow ==
    /\ [](0 <= calls_made /\ calls_made <= max_calls)
    /\ [][ (ReachesAdmission /\ now >= call_reset_time)
             => /\ call_reset_time' = now + 3600
                /\ calls_made' = (IF max_calls >= 1 THEN 1 ELSE 0)
                /\ (last'.outcome = "rate_limited") = (max_calls = 0) ]_vars

\* The budget of 1 was used by an analysis at time 0 (its entry is stored),
\* and a verification started at the reset time found the window reset and
\* was admitted as the first call of the next window.
C1_Witness ==
    /\ max_calls = 1
    /\ cache[CacheKey(hash_seed, "analyze", <<"a">>, <<>>)].state = "ok"
    /\ cache[CacheKey(hash_seed, "analyze", <<"a">>, <<>>)].written_at = 0
    /\ last.op = "verify"
    /\ last.outcome = "admitted"
    /\ now >= 3600
    /\ call_reset_time = now + 3600
    /\ calls_made = 1

\* C2: inside one window an analyze_code_segment call that misses the cache
\* is admitted iff calls_made + 1 <= max_calls; an admitted call starts the
\* external call and counts calls_made up by one; a rejected call starts no
\* external call, returns the rate-limited fallback (ai_score 0.5, findings
\* mentioning "Rate limit") and leaves calls_made as it was.  So calls_made
\* counts the external calls 1..N and stays at N.
C2_Admission ==
    [][ (AnalyzeReachesAdmission /\ now < call_reset_time)
          => IF calls_made + 1 <= max_calls
             THEN /\ last'.outcome = "admitted"
                  /\ calls_made' = calls_made + 1
                  /\ ext_total' = ext_total + 1
                  /\ \E s \in Slots : inflight[s] = Idle /\ inflight'[s] # Idle
             ELSE /\ last'.outcome = "rate_limited"
                  /\ last'.result.ai_score = 50
                  /\ last'.result.findings =
                        << <<"GPT analysis failed", "Rate limit reached">> >>
                  /\ calls_made' = calls_made
                  /\ ext_total' = ext_total
                  /\ inflight' = inflight ]_vars

\* Two calls were admitted in the first window and made their external
\* calls, the third was rejected with the counter still at 2.
C2_Witness ==
    /\ last.op = "analyze"
    /\ last.outcome = "rate_limited"
    /\ max_calls = 2
    /\ calls_made = 2
    /\ ext_calls = 2
    /\ now < call_reset_time
    /\ call_reset_time = 3600

\* C3: with max_calls >= 1 and calls_made = max_calls, a call that reaches
\* the admission check before call_reset_time is rejected and changes
\* nothing, and one that reaches it at or after call_reset_time is admitted
\* and leaves calls_made = 1 and call_reset_time = now + 3600.
C3_LimitNotPermanent ==
    [][ (ReachesAdmission /\ max_calls >= 1 /\ calls_made = max_calls)
          => IF now < call_reset_time
             THEN /\ last'.outcome = "rate_limited"
                  /\ calls_made' = calls_made
                  /\ call_reset_time' = call_reset_time
                  /\ ext_total' = ext_total
             ELSE /\ last'.outcome # "rate_limited"
                  /\ calls_made' = 1
                  /\ call_reset_time' = now + 3600 ]_vars

\* The budget of 1 was used at time 0 (the entry written then is still
\* stored), and a call at the reset time was admitted.
C3_Witness ==
    /\ max_calls = 1
    /\ last.op = "analyze"
    /\ last.outcome = "admitted"
    /\ last.code = <<"a", "b">>
    /\ cache[CacheKey(hash_seed, "verify", <<"a">>, <<>>)].state = "ok"
    /\ cache[CacheKey(hash_seed, "verify", <<"a">>, <<>>)].written_at = 0
    /\ now >= 3600
    /\ calls_made = 1
    /\ call_reset_time = now + 3600

\* A step in which analyze_code_segment finds a fresh, readable entry.
AnalyzeHits(i) ==
    /\ analyze_code_segment(i[1], i[2])
    /\ CacheLookup(AnalyzeKey(i)) = "hit"

\* A step in which a suspended analyze_code_segment returns a parsed record.
AnalyzeReturnsReal ==
    /\ last'.op = "analyze"
    /\ last'.outcome = "real"
    /\ \E s \in Slots :
          /\ inflight[s].op = "analyze"
          /\ inflight'[s] = Idle
          /\ \E r \in Replies : external_call_returns(s, r)

\* What a cache hit of analyze_code_segment does: the stored record is
\* returned, no external call is started, the rate window is untouched.
HitServesStored ==
    \A i \in AnalyzeInputs :
        AnalyzeHits(i)
          => /\ last'.outcome = "cache_hit"
             /\ last'.result = cache[AnalyzeKey(i)].body
             /\ calls_made' = calls_made
             /\ call_reset_time' = call_reset_time
             /\ ext_total' = ext_total
             /\ inflight' = inflight

\* C4 as stated: with caching enabled, once analyze_code_segment has
\* returned a real result, a repeat of the call (here: at once, before any
\* time passes) is served from the cache a record equal to the first, with
\* no external call and the rate window untouched.
C4_Original ==
    /\ [][HitServesStored]_vars
    /\ [][ (cache_dir /\ AnalyzeReturnsReal)
             => /\ CacheLookup(LastKey)' = "hit"
                /\ cache'[LastKey'].body = last'.result ]_vars

\* C4, amended: a call whose key has a fresh readable entry returns the
\* stored record, starts no external call and leaves calls_made and
\* call_reset_time unchanged, also at calls_made = max_calls; and the entry
\* a real result's successful cache write leaves is that result, served to
\* an immediate repeat of the call.
C4_CacheHit ==
    /\ [][HitServesStored]_vars
    /\ [][ (/\ cache_dir
            /\ AnalyzeReturnsReal
            /\ cache'[LastKey'] # cache[LastKey']
            /\ cache'[LastKey'].state = "ok")
             => /\ CacheLookup(LastKey)' = "hit"
                /\ cache'[LastKey'].body = last'.result ]_vars

\* With the budget of 1 used up by the first call, the repeat was served
\* the stored record and no second external call was made.
C4_Witness ==
    /\ cache_dir
    /\ last.op = "analyze"
    /\ last.outcome = "cache_hit"
    /\ last.result = cache[LastKey].body
    /\ last.result.ai_score = 150
    /\ max_calls = 1
    /\ calls_made = max_calls
    /\ ext_total = 1

\* C5: verify_ai_implementation, check_code_originality and
\* analyze_market_context look the cache up before the rate-limit
\* admission: a call whose key has a fresh entry returns that entry and
\* leaves calls_made unchanged, also when calls_made = max_calls.
C5_SiblingsCacheFirst ==
    [][ /\ \A c \in SiblingCodes :
              ( /\ verify_ai_implementation(c)
                /\ CacheLookup(CacheKey(hash_seed, "verify", c, <<>>)) = "hit" )
                => /\ last'.outcome = "cache_hit"
                   /\ last'.result =
                        cache[CacheKey(hash_seed, "verify", c, <<>>)].body
                   /\ calls_made' = calls_made
        /\ \A c \in SiblingCodes :
              ( /\ check_code_originality(c)
                /\ CacheLookup(CacheKey(hash_seed, "originality", c, <<>>))
                     = "hit" )
                => /\ last'.outcome = "cache_hit"
                   /\ last'.result =
                        cache[CacheKey(hash_seed, "originality", c, <<>>)].body
                   /\ calls_made' = calls_made
        /\ \A i \in MarketInputs :
              ( /\ analyze_market_context(i[1], i[2])
                /\ CacheLookup(CacheKey(hash_seed, "market", i[1], i[2]))
                     = "hit" )
                => /\ last'.outcome = "cache_hit"
                   /\ last'.result =
                        cache[CacheKey(hash_seed, "market", i[1], i[2])].body
                   /\ calls_made' = calls_made ]_vars

\* C6: every external call is preceded by a successful admission on the
\* one rate window, so the external calls started since the last window
\* reset never exceed max_calls.
C6_SharedBudget ==
    /\ [](ext_calls <= max_calls)
    /\ [][ ext_total' > ext_total => calls_made' = CallsAfterReset + 1 ]_vars

\* C7: analyze_code_segment never raises; when the external call fails or
\* the reply cannot be parsed it returns the error fallback: five sub-scores
\* of 0.5 and findings that describe the error.
C7_NeverRaises ==
    last.op = "analyze"
      => /\ last.outcome # "raised"
         /\ last.outcome = "error_fallback"
              => /\ \A k \in ScoreKeys : last.result[k] = 50
                 /\ last.result.findings[1][1] = "GPT analysis failed"
                 /\ last.result.findings[1][2] # ""

\* A step in which a suspended invocation ends in failure: the external
\* call raised, the reply could not be parsed, or the coroutine was
\* cancelled.
EndsInFailure(s) ==
    /\ inflight[s] # Idle
    /\ inflight'[s] = Idle
    /\ last'.outcome \in {"error_fallback", "aborted"}

\* C8: an invocation attempts the external call once: when it fails or is
\* aborted the invocation ends and no further external call is started; the
\* slot it took at admission is not given back (calls_made is one above the
\* count its admission check saw, and stays there); calls_made goes down
\* only in a step that resets the window; and a repeat of the invocation
\* takes a further slot.
C8_NoRetryNoRefund ==
    /\ [][ \A s \in Slots :
              EndsInFailure(s)
                => /\ calls_made' = calls_made
                   /\ call_reset_time' = call_reset_time
                   /\ ext_total' = ext_total
                   /\ \A t \in Slots \ {s} : inflight'[t] = inflight[t] ]_vars
    /\ [][ calls_made' < calls_made
             => (ReachesAdmission /\ now >= call_reset_time) ]_vars
    /\ [][ (AnalyzeReachesAdmission /\ last'.outcome = "admitted")
             => /\ calls_made' = (IF now >= call_reset_time
                                  THEN 0 ELSE calls_made) + 1
                /\ ext_total' = ext_total + 1 ]_vars

\* Both slots of a budget of 2 were taken by the same analysis, whose
\* external call failed twice; nothing was given back.
C8_Witness ==
    /\ last.op = "analyze"
    /\ last.outcome = "error_fallback"
    /\ max_calls = 2
    /\ calls_made = 2
    /\ ext_total = 2
    /\ \A k \in Keys : cache[k] = NoEntry
    /\ \A s \in Slots : inflight[s] = Idle

\* C9: a stored record is served by a lookup iff its age is below
\* cache_ttl; a lookup at age >= cache_ttl is a miss that leaves the entry
\* in place and sends the call on to admission; and a successful result's
\* write replaces the entry by that result with written_at the time of the
\* write.
C9_TtlRoundTrip ==
    /\ [](\A k \in Keys :
            (cache_dir /\ cache[k].state = "ok")
              => ((CacheLookup(k) = "hit") = (now - cache[k].written_at < 3600)))
    /\ [][ \A i \in AnalyzeInputs :
              ( /\ analyze_code_segment(i[1], i[2])
                /\ cache_dir
                /\ cache[AnalyzeKey(i)].state = "ok"
                /\ now - cache[AnalyzeKey(i)].written_at >= 3600 )
                => /\ cache' = cache
                   /\ last'.outcome \in {"admitted", "rate_limited"} ]_vars
    /\ [][ (/\ cache_dir
            /\ AnalyzeReturnsReal
            /\ cache'[LastKey'] # cache[LastKey']
            /\ cache'[LastKey'].state = "ok")
             => cache'[LastKey'] =
                  [state |-> "ok", written_at |-> now, body |-> last'.result]
       ]_vars

\* The entry written at time 0 had expired at 3600; the call went to the
\* external reviewer again and its result replaced the entry.
C9_Witness ==
    /\ cache_dir
    /\ last.op = "analyze"
    /\ last.outcome = "real"
    /\ ext_total = 2
    /\ now >= 3600
    /\ cache[LastKey] = [state |-> "ok", written_at |-> now,
                         body |-> last.result]
    /\ \A k \in Keys \ {LastKey} : cache[k] = NoEntry
    /\ calls_made = 1

\* C10: the cache is never a source of errors: no operation raises because
\* of what it finds there, and with no cache directory configured no entry
\* is ever written.
C10_CacheNeverFails ==
    /\ last.outcome # "raised"
    /\ ~cache_dir => \A k \in Keys : cache[k] = NoEntry

\* The inputs each operation is called with, as (code, context) pairs.
InputsOf(op) ==
    IF op = "analyze" THEN AnalyzeInputs
    ELSE IF op = "market" THEN MarketInputs
    ELSE SiblingCodes \X {<<>>}

\* A process whose hash seed was sd cached a record for these inputs and the
\* record is still within the TTL.
CachedBy(sd, op, i) ==
    LET e == cache[CacheKey(sd, op, i[1], i[2])]
    IN  cache_dir /\ e.state = "ok" /\ now - e.written_at < cache_ttl

\* C11: the cache key of an operation and its inputs is the same in every
\* process: whenever some process cached a record for an operation and its
\* inputs and the TTL has not elapsed, the lookup the running process makes
\* for the same operation and inputs is a hit.  The key is built from
\* hash() of a str, which depends on the process's seed: after a restart
\* the running process looks under another key and misses.
C11_KeyStableAcrossProcesses ==
    \A sd \in Seeds, op \in Ops :
        \A i \in InputsOf(op) :
            CachedBy(sd, op, i)
                => CacheLookup(CacheKey(hash_seed, op, i[1], i[2])) = "hit"

\* ---------------------------------------------- scoring: what the claims say
Constructed == analysis_result # NoResult
Scored == returned # NoScore
Reported == report # NoReport

AllBaseZero(r) ==
    /\ r.ai_framework_score = 0
    /\ r.code_quality_score = 0
    /\ r.execution_score = 0
    /\ r.security_score = 0

\* The base sub-scores above 0, their mean weighted 0.7, and the overall
\* score without any floor, written out from the scoring rule.
NonzeroBase(r) ==
    SelectSeq(<<r.ai_framework_score, r.code_quality_score,
                r.execution_score, r.security_score>>,
              LAMBDA x : x > 0)
BasePart(r) ==
    IF NonzeroBase(r) = <<>> THEN 0
    ELSE (84 * Sum(NonzeroBase(r))) \div Len(NonzeroBase(r))
MarketPart(r) == 36 * r.market_value_score
Unfloored(r) == BasePart(r) + MarketPart(r)
Half == 50 * 120

NoteCount(recs) == Cardinality({n \in 1..Len(recs) : recs[n] = Note})
HasNote(rep) == NoteCount(rep.recommendations) >= 1

\* C12: with the four base sub-scores all 0, the overall score is exactly
\* 0.3 x market_value_score, from calculate_overall_score and in the Report,
\* and the Report carries no adjustment note, also for a market score of 0.8
\* or more.
C12_MarketOnly ==
    (Constructed /\ AllBaseZero(analysis_result)) =>
        /\ Scored => returned = MarketPart(analysis_result)
        /\ Reported =>
              /\ report.overall_score = MarketPart(analysis_result)
              /\ ~HasNote(report)
              /\ report.recommendations = analysis_result.recommendations

C12_Witness ==
    /\ Constructed /\ Scored /\ Reported
    /\ AllBaseZero(analysis_result)
    /\ analysis_result.market_value_score >= 80
    /\ returned = MarketPart(analysis_result)

\* C13: with at least one base sub-score above 0 and a market score of 0.8
\* or more, the overall score is at least 0.5, and the Report carries the
\* adjustment note whenever the unfloored value is below 0.5.
C13_Floor ==
    (/\ Constructed
     /\ NonzeroBase(analysis_result) # <<>>
     /\ analysis_result.market_value_score >= 80) =>
        /\ Scored => returned >= Half
        /\ Reported =>
              /\ report.overall_score >= Half
              /\ Unfloored(analysis_result) < Half => HasNote(report)

C13_Witness ==
    /\ Constructed /\ Scored /\ Reported
    /\ NonzeroBase(analysis_result) # <<>>
    /\ analysis_result.market_value_score = 80
    /\ Unfloored(analysis_result) < Half
    /\ returned = Half
    /\ HasNote(report)

\* The floor rule changed the base contribution.
FloorFired(r) ==
    /\ r.market_value_score >= 80
    /\ NonzeroBase(r) # <<>>
    /\ BasePart(r) < Half - MarketPart(r)

\* C14: the Report carries the adjustment note iff the floor rule changed the
\* base contribution (market score >= 0.8, a base sub-score above 0, and
\* 0.7 x mean < 0.5 - 0.3 x market score); otherwise its recommendations are
\* the result's.  generate_summary sets score_override whenever the market
\* score is >= 0.8 and a base sub-score is above 0, changed or not.
C14_NoteIffFloorFired ==
    Reported =>
        /\ HasNote(report) <=> FloorFired(analysis_result)
        /\ ~FloorFired(analysis_result)
              => report.recommendations = analysis_result.recommendations

\* C15: the Report's overall_score is the value calculate_overall_score
\* returns on the same AnalysisResult.
C15_ReportAgrees ==
    (Scored /\ Reported) => report.overall_score = returned

C15_Witness ==
    /\ Scored /\ Reported
    /\ FloorFired(analysis_result)
    /\ Len(NonzeroBase(analysis_result)) = 3
    /\ report.overall_score = returned

InUnitRange(r) ==
    \A x \in {r.ai_framework_score, r.code_quality_score, r.execution_score,
              r.security_score, r.market_value_score} : 0 <= x /\ x <= 100

AllOnes(r) ==
    {r.ai_framework_score, r.code_quality_score, r.execution_score,
     r.security_score, r.market_value_score} = {100}

\* C16: with the five sub-scores in [0,1] the overall score is in [0,1],
\* floored or not, and it is 1.0 when all five sub-scores are 1.0.
C16_UnitRange ==
    (Constructed /\ InUnitRange(analysis_result)) =>
        /\ Scored => /\ 0 <= returned /\ returned <= 100 * 120
                     /\ AllOnes(analysis_result) => returned = 100 * 120
        /\ Reported => /\ 0 <= report.overall_score
                       /\ report.overall_score <= 100 * 120
                       /\ AllOnes(analysis_result)
                             => report.overall_score = 100 * 120

C16_Witness ==
    /\ Constructed /\ Scored /\ Reported
    /\ AllOnes(analysis_result)
    /\ returned = 100 * 120

\* C17: the Report's detailed_scores are the five raw sub-scores of the
\* AnalysisResult under their five labels, floored or not, and when the
\* adjustment note is present it is the first recommendation, followed by
\* the result's recommendations in their order.
C17_RawBreakdown ==
    Reported =>
        /\ DOMAIN report.detailed_scores = Labels
        /\ Cardinality(Labels) = 5
        /\ report.detailed_scores["AI Framework Integration"]
               = analysis_result.ai_framework_score
        /\ report.detailed_scores["Code Quality"]
               = analysis_result.code_quality_score
        /\ report.detailed_scores["Execution Performance"]
               = analysis_result.execution_score
        /\ report.detailed_scores["Code Originality"]
               = analysis_result.security_score
        /\ report.detailed_scores["Market Success"]
               = analysis_result.market_value_score
        /\ HasNote(report)
              => report.recommendations
                    = <<Note>> \o analysis_result.recommendations

C17_Witness ==
    /\ Reported
    /\ FloorFired(analysis_result)
    /\ Len(analysis_result.recommendations) = 2
    /\ report.recommendations[1] = Note
    /\ report.detailed_scores["Market Success"] = 80
    /\ report.overall_score = Half

\* C18: calculate_overall_score and generate_summary leave every field of
\* the AnalysisResult as it was, a repeated calculate_overall_score returns
\* the same score, a repeated generate_summary the same Report, and no
\* Report holds the adjustment note more than once.
C18_ReadOnly ==
    /\ [][Constructed => analysis_result' = analysis_result]_vars
    /\ [][(Scored /\ returned' # NoScore) => returned' = returned]_vars
    /\ [][(Reported /\ report' # NoReport) => report' = report]_vars
    /\ [](Reported => NoteCount(report.recommendations) <= 1)

C18_Witness ==
    /\ Scored /\ Reported
    /\ NoteCount(report.recommendations) = 1
    /\ NoteCount(analysis_result.recommendations) = 0
    /\ analysis_result.recommendations # <<>>

C20_NeutralWithoutMarketData ==
    (Constructed /\ origin \in {"not_supplied", "not_configured", "failed"})
        => analysis_result.market_value_score = 50

\* ---------------------------------------------------- records returned
\* The last call ended in a fallback record: turned away at the limit, or
\* the external call or the parsing of its reply failed.
ReturnedFallback == last.outcome \in {"rate_limited", "error_fallback"}

\* The numeric score fields of the records the four operations return.
NumericFields(op) ==
    IF op = "analyze" THEN ScoreKeys
    ELSE IF op = "verify" THEN {"confidence"}
    ELSE IF op = "originality" THEN {"originality_score"}
    ELSE {"popularity_score", "adoption_score", "impact_score"}

ImplementationTypes == {"framework", "api", "hybrid", "none"}

\* C21: every fallback record of the four operations has each numeric score
\* field equal to 0.5, and the fallback of verify_ai_implementation has an
\* implementation_type among framework, api, hybrid, none.
C21_NeutralFallbacks ==
    ReturnedFallback =>
        /\ \A f \in NumericFields(last.op) : last.result[f] = 50
        /\ last.op = "verify" =>
               last.result.implementation_type \in ImplementationTypes

\* C26: every record analyze_code_segment returns (parsed, cached or
\* fallback) has the five sub-scores, each within [0,1].
C26_FiveScoresInRange ==
    (last.op = "analyze" /\ last.outcome \in
         {"real", "cache_hit", "rate_limited", "error_fallback"}) =>
        \A f \in ScoreKeys :
            /\ f \in DOMAIN last.result
            /\ last.result[f] \in 0..100

\* The operations and inputs whose cache key, in the running process, is k.
OwnersOf(k) ==
    {oi \in UNION {{op} \X InputsOf(op) : op \in Ops} :
         CacheKey(hash_seed, oi[1], oi[2][1], oi[2][2]) = k}

\* C27: a stored cache entry belongs to one (operation, input_text,
\* context): no two different ones map to the entry, so no call is served a
\* record cached for other inputs.
C27_OneOwnerPerEntry ==
    \A k \in Keys :
        (cache_dir /\ cache[k].state = "ok") => Cardinality(OwnersOf(k)) <= 1

\* C29: the overall score of a result with a base sub-score above 0 is at
\* least get_minimum_score(market_value_score) whenever that is defined:
\* min_popular_score from 0.8 on, 0.4 from 0.6 to below 0.8, and no minimum
\* below 0.6.
C29_FloorAgreesWithMinimum ==
    /\ \A mp \in MinPopularScores, m \in MarketScores :
           m < ModerateMarket => get_minimum_score(mp, m) = NoMinimum
    /\ (Constructed /\ Scored /\ NonzeroBase(analysis_result) # <<>>) =>
           \A mp \in MinPopularScores :
               LET minimum ==
                       get_minimum_score(mp, analysis_result.market_value_score)
               IN  minimum # NoMinimum => returned >= Whole(minimum)

\* C30: ReportGenerator._calculate_overall_score returns, for every
\* AnalysisResult, what calculate_overall_score returns and what the Report
\* of generate_summary holds as overall_score.
C30_ThreeFormulasAgree ==
    Constructed =>
        /\ Scored =>
               legacy_calculate_overall_score(analysis_result) = returned
        /\ Reported =>
               legacy_calculate_overall_score(analysis_result)
                   = report.overall_score

\* The sampled files were analysed and every record is a fallback.
OnlyFallbacks(results) ==
    /\ results # <<>>
    /\ \A n \in 1..Len(results) : results[n] \in FallbackRecords

\* C25: when every analyze_code_segment record for the sampled files is a
\* fallback, CodeAnalyzer.analyze stores the static authenticity score as
\* ai_framework_score; a static score of 0 stays 0 and is not among the
\* base sub-scores the overall-score formula collects.
C25_FallbacksDoNotBias ==
    [][(analysis_result = NoResult /\ analysis_result' # NoResult) =>
          \A ai \in BaseScores, results \in GptResults,
             configured \in BOOLEAN, outcome \in MarketOutcomes :
              (/\ OnlyFallbacks(results)
               /\ analyze(analysis_result'.code_quality_score, ai,
                          analysis_result'.execution_score,
                          analysis_result'.security_score,
                          results, configured, outcome)) =>
                  /\ analysis_result'.ai_framework_score = ai
                  /\ ai = 0 =>
                         Len(base_scores(analysis_result'))
                             = Len(base_scores([analysis_result' EXCEPT
                                       !.ai_framework_score = 0]))]_vars

\* The suspended invocations.
Suspended == {s \in Slots : Awaiting(s)}

\* C23: with several analyze_code_segment, verify_ai_implementation and
\* check_code_originality calls in flight on one GPTAnalyzer, the check and
\* the increment are one step: calls_made and the number of external calls
\* started in a window never exceed max_calls, and every call that passed
\* the check in the window is counted.
C23_AtomicAdmission ==
    /\ calls_made <= max_calls
    /\ ext_calls <= max_calls
    /\ admitted.in_window = calls_made

\* Room for one call: the first is suspended in its external call, the
\* second is turned away.
C23_Witness ==
    /\ max_calls = 1
    /\ calls_made = 1
    /\ Suspended # {}
    /\ last.outcome = "rate_limited"

\* The admissions within the interval of length WindowDuration from t0.
AdmittedFrom(t0) ==
    {n \in 1..Len(admitted.at) :
         t0 <= admitted.at[n] /\ admitted.at[n] < t0 + WindowDuration}

\* C24: between two consecutive resets of the counter at most max_calls
\* calls are admitted; an interval of length window_duration that straddles
\* a reset holds at most 2 x max_calls admissions.
C24_FixedWindow ==
    /\ admitted.in_window <= max_calls
    /\ \A n \in 1..Len(admitted.at) :
           Cardinality(AdmittedFrom(admitted.at[n])) <= 2 * max_calls

\* C24 as stated: in every interval of length window_duration, wherever it
\* starts, at most max_calls calls are admitted.
C24_RollingWindow ==
    \A n \in 1..Len(admitted.at) :
        Cardinality(AdmittedFrom(admitted.at[n])) <= max_calls

\* max_calls admissions before a reset and max_calls after it, less than
\* WindowDuration apart.
C24_Witness ==
    /\ max_calls >= 1
    /\ admitted.in_window = max_calls
    /\ \E n \in 1..Len(admitted.at) :
           Cardinality(AdmittedFrom(admitted.at[n])) = 2 * max_calls

\* A record that stands for an analysis that did not take place: a fallback
\* of the analyzer, or a market result computed from one.
Degraded(rec) ==
    \/ "findings" \in DOMAIN rec /\ rec.findings # <<>>
           /\ rec.findings[1][1] = "GPT analysis failed"
    \/ "evidence" \in DOMAIN rec /\ rec.evidence # <<>>
           /\ rec.evidence[1][1] \in {"Analysis failed", "Rate limit reached"}
    \/ "market_context" \in DOMAIN rec
           /\ rec.market_context[1] \in
                  {"Analysis failed", "Market analysis unavailable"}

\* C28: no fallback record is written to a cache, neither by the analyzer
\* nor by MarketAnalyzer.analyze_market_value, so that a call after a
\* failed one is not served a degraded record from a cache.
C28_NoFallbackCached ==
    /\ \A k \in Keys : cache[k].state = "ok" => ~Degraded(cache[k].body)
    /\ \A k \in MarketKeys :
           market_cache[k].state = "ok" => ~Degraded(market_cache[k].body)

\* The credential is absent or empty.
NoCredential == api_key \in {"none", ""}

\* C22: GPTAnalyzer() with the credential absent or empty ends in ValueError
\* at once, no attribute of the rate limiter or the cache having been set;
\* no analyzer exists without a credential, so no analysis call runs and
\* fails later for it, and a failed construction is not attempted again.
C22_FailsAtConstruction ==
    /\ [](/\ client = "constructed" => ~NoCredential
          /\ client = "ValueError" => (NoCredential /\ attrs = {})
          /\ NoCredential => (last = NoCall /\ ext_total = 0))
    /\ [][(client = "unconstructed" /\ client' # client /\ NoCredential)
              => (client' = "ValueError" /\ attrs' = {})]_vars
    /\ [][client = "ValueError" => client' = "ValueError"]_vars

C22_Witness ==
    /\ api_key = ""
    /\ client = "ValueError"
    /\ attrs = {}
    /\ now > 0
====
